---- MODULE Spec2Model ----
(***************************************************************************)
(* Daily word ledger: the Express server that keeps data.json (current     *)
(* word, submissions, archive) and the React provider AppStateContext that *)
(* keeps the client's copy of the ledger, rolls the day over and submits   *)
(* interpretations.                                                        *)
(*                                                                         *)
(* Every await of the source is a point where other handlers may run, so   *)
(* a handler is one action per synchronous segment between two awaits.     *)
(* Gateway calls (word, image, summary, network) answer or fail; which of  *)
(* the two is chosen by the action that resumes the handler.               *)
(***************************************************************************)
EXTENDS Integers, Sequences, FiniteSets, TLC

\* ------------------------------------------------------------------ bounds
\* Calendar days the clock runs through (day keys are 1..MaxDay).
MaxDay == 2
\* POST /api/submit requests of one run.
MaxSubmits == 2
\* POST /api/generate requests of one run.
MaxGenerates == 2

Days == 1..MaxDay
SubmitReqs == 1..MaxSubmits
GenReqs == 1..MaxGenerates

\* ------------------------------------------------------------------ values
\* JSON null / undefined.
Null == [null |-> TRUE]
\* No image (null on the server, undefined on the client).
NoImage == <<>>
\* The base64 image the image service returns for a prompt about word w.
ImageFor(w) == <<w>>

\* Characters that occur in the inputs of the model.
Letters == {"a", "b", "e", "k", "l", "o", "r", "v", "z", "E"}
Blank == " "

\* String.prototype.trim on a sequence of characters.
RECURSIVE TrimLeft(_)
TrimLeft(s) == IF s # <<>> /\ Head(s) = Blank THEN TrimLeft(Tail(s)) ELSE s
RECURSIVE TrimRight(_)
TrimRight(s) ==
    IF s # <<>> /\ s[Len(s)] = Blank THEN TrimRight(SubSeq(s, 1, Len(s) - 1)) ELSE s
Trim(s) == TrimRight(TrimLeft(s))

\* raw.replace(/[^a-zA-Z]/g, '')
StripNonAlpha(s) == SelectSeq(s, LAMBDA c : c \in Letters)
\* .slice(0, 12)
WordSliceLen == 12
Slice(s, n) == SubSeq(s, 1, IF Len(s) < n THEN Len(s) ELSE n)
\* const word = raw.replace(/[^a-zA-Z]/g, '').slice(0, 12)
NormalizeWord(raw) == Slice(StripNonAlpha(Trim(raw)), WordSliceLen)

\* Texts a caller may type into the form or post to the server.
Texts == { <<>>, <<" ">>, <<" ", "a", " ">> }
\* const maxLength = 280, the maxLength of the form's textarea.
maxLength == 280
\* A text one character longer than the textarea takes.
LongText == [i \in 1..(maxLength + 1) |-> "a"]
\* Texts a caller may post to the server.
PostedTexts == Texts \cup {LongText}
\* What the textarea holds when the caller has typed or pasted a text.
FormTexts == { Slice(t, maxLength) : t \in PostedTexts }
\* Usernames a caller may give (<<>> is the absent / empty username).
GivenNames == { <<>>, <<" ">>, <<"b", " ">> }
\* Text the word model may answer with.
RawWords == { <<"b", "l", "o", "r", "v", "e", "k">>, <<"z", "o", "r", "b", "l", "e", " ">> }

\* Text the word model may answer with, usable or not: a word, a word with a
\* blank, digits only, a word of three letters.
RawAnswers == RawWords \cup { <<"4", "2">>, <<"o", "r", "b">> }
\* "The word should be between 6 and 12 letters long."
MinWordLen == 6

\* randomUsername: `${adjectives[i]}-${nouns[j]}-${n}`
adjectives == <<"Curious", "Sleepy", "Quantum", "Chaotic", "Dreamy", "Vivid">>
nouns == <<"Duck", "Neuron", "Pixel", "Orb", "Molecule", "Quasar">>
randomUsername(i, j, n) == [adj |-> adjectives[i + 1], noun |-> nouns[j + 1], num |-> n]
\* Values drawn for Math.floor(Math.random() * 6), twice, and
\* Math.floor(Math.random() * 99) + 1.
RandomDraws == { <<0, 0, 1>>, <<5, 5, 99>> }
Range(f) == { f[k] : k \in DOMAIN f }
\* An Adjective-Noun-Number handle, the number in 1..99.
IsHandle(u) ==
    /\ DOMAIN u = {"adj", "noun", "num"}
    /\ u.adj \in Range(adjectives)
    /\ u.noun \in Range(nouns)
    /\ u.num \in 1..99

\* username && username.trim() ? username.trim() : randomUsername()
ResolveUsername(given, draw) ==
    IF given # <<>> /\ Trim(given) # <<>>
    THEN [name |-> Trim(given)]
    ELSE randomUsername(draw[1], draw[2], draw[3])

Ids(subs) == { subs[k].id : k \in 1..Len(subs) }

\* ------------------------------------------------------------------ server
\* today: the calendar-day key new Date().toISOString().split('T')[0] yields now.
\* data: the content of data.json.
\* subReq, genReq: the POST /api/submit and POST /api/generate requests, each
\* with the position of its handler and the locals the handler holds.
VARIABLES today, data, subReq, genReq

serverVars == <<today, data, subReq, genReq>>

\* The data file the server creates when there is none.
EmptyLedger == [current |-> Null, submissions |-> <<>>, archive |-> <<>>]

IdleSubmit ==
    [pc |-> "idle", snap |-> EmptyLedger, text |-> <<>>, given |-> <<>>,
     user |-> Null, met |-> {}, epoch |-> 0]
\* image: whether the request's image step produced an image.
IdleGenerate == [pc |-> "idle", image |-> "none"]

\* Number of POST /api/generate requests that have stored their word.
StoresDone == Cardinality({ g \in GenReqs : genReq[g].pc = "done" })

\* { id: uuidv4(), text: text.trim(), username: user, likes: 0, ... }
\* uuidv4 is taken to be unique: the id is the number of the request.
NewSubmission(r, text, user) ==
    [id |-> r, text |-> Trim(text), username |-> user, likes |-> 0]

\* The submission a completed request answers with.
ResponseOf(r) == NewSubmission(r, subReq[r].text, subReq[r].user)

\* generateImage() awaits the network for these providers and returns null at
\* once (no macrotask in between) for any other value.
AwaitsNetwork(imageProvider) == imageProvider \in {"gemini", "chatgpt", "clipdrop"}
ImageProviders == {"gemini", "other"}

\* data.submissions.push(submission); writeData(data)
PushAndWrite(d, sub) == [d EXCEPT !.submissions = Append(@, sub)]

InFlight == { q \in SubmitReqs : subReq[q].pc = "awaiting" }

\* !text || !text.trim(), without the trim.
TextMissingNoTrim(text) == text = <<>>
\* !text || !text.trim()
TextMissing(text) == text = <<>> \/ Trim(text) = <<>>

\* app.post('/api/submit') up to its first await: validation, readData, the
\* username. With no network await the handler runs to its end in one step.
PostSubmit(r, text, username, imageProvider, draw) ==
    /\ subReq[r].pc = "idle"
    /\ \A q \in SubmitReqs : q < r => subReq[q].pc # "idle"
    /\ IF TextMissing(text)
       THEN /\ subReq' = [subReq EXCEPT ![r].pc = "rejected", ![r].text = text]
            /\ UNCHANGED data
       ELSE LET user == ResolveUsername(username, draw) IN
            IF AwaitsNetwork(imageProvider)
            THEN /\ subReq' = [q \in SubmitReqs |->
                        IF q = r
                        THEN [pc |-> "awaiting", snap |-> data, text |-> text,
                              given |-> username, user |-> user,
                              met |-> InFlight, epoch |-> 0]
                        ELSE IF q \in InFlight
                             THEN [subReq[q] EXCEPT !.met = @ \cup {r}]
                             ELSE subReq[q]]
                 /\ UNCHANGED data
            ELSE /\ data' = PushAndWrite(data, NewSubmission(r, text, user))
                 /\ subReq' = [q \in SubmitReqs |->
                        IF q = r
                        THEN [pc |-> "done", snap |-> EmptyLedger, text |-> text,
                              given |-> username, user |-> user,
                              met |-> InFlight, epoch |-> StoresDone]
                        ELSE IF q \in InFlight
                             THEN [subReq[q] EXCEPT !.met = @ \cup {r}]
                             ELSE subReq[q]]
    /\ UNCHANGED <<today, genReq>>

\* app.post('/api/submit') after `await generateImage()`: the submission is
\* pushed onto the data read before the await and that object is written.
SubmitWrite(r) ==
    /\ subReq[r].pc = "awaiting"
    /\ data' = PushAndWrite(subReq[r].snap, ResponseOf(r))
    /\ subReq' = [subReq EXCEPT ![r].pc = "done", ![r].snap = EmptyLedger,
                                ![r].epoch = StoresDone]
    /\ UNCHANGED <<today, genReq>>

\* app.post('/api/generate'): the key check, then the awaits on the word model.
PostGenerate(g, keyConfigured) ==
    /\ genReq[g].pc = "idle"
    /\ \A q \in GenReqs : q < g => genReq[q].pc # "idle"
    /\ genReq' = [genReq EXCEPT ![g].pc =
                    IF keyConfigured THEN "awaiting" ELSE "failed"]
    /\ UNCHANGED <<today, data, subReq>>

\* data.current = { word, image, date: today, aiMeaning }
ServerWord(raw, imageOk) ==
    LET word == NormalizeWord(raw) IN
    [word |-> word, image |-> IF imageOk THEN ImageFor(word) ELSE NoImage,
     date |-> today, aiMeaning |-> "meaning"]

\* "3. Store and return": readData, set current, clear submissions, writeData.
StoreGenerated(d, w) == [d EXCEPT !.current = w, !.submissions = <<>>]

\* The word and the meaning have been generated and the image attempted.
GenerateStore(g, raw, imageOk) ==
    /\ genReq[g].pc = "awaiting"
    /\ data' = StoreGenerated(data, ServerWord(raw, imageOk))
    /\ genReq' = [genReq EXCEPT ![g] =
                    [pc |-> "done", image |-> IF imageOk THEN "ok" ELSE "failed"]]
    /\ UNCHANGED <<today, subReq>>

\* The word model (word or meaning) threw: the catch answers 500.
GenerateFail(g) ==
    /\ genReq[g].pc = "awaiting"
    /\ genReq' = [genReq EXCEPT ![g].pc = "failed"]
    /\ UNCHANGED <<today, data, subReq>>

\* Midnight (UTC) passes.
NextDay ==
    /\ today < MaxDay
    /\ today' = today + 1
    /\ UNCHANGED <<data, subReq, genReq>>

InitServer ==
    /\ today = 1
    /\ data = EmptyLedger
    /\ subReq = [r \in SubmitReqs |-> IdleSubmit]
    /\ genReq = [g \in GenReqs |-> IdleGenerate]

\* ------------------------------------------------------------------ client
\* Administrative actions started from the panel in one run.
MaxPanelOps == 2
\* Page reloads by the user in one run.
MaxReloads == 1
\* Interpretations added to the pool in a run of the day's lifecycle.
MaxPool == 1
\* Calls of likeSubmission in one run.
MaxLikes == 2

\* currentWord, submissions, archive, isLoading, isSummarizing: the useState
\*   cells of AppStateProvider as of the last committed render.
\* loadingState: the useState cell of AdminPanel.
\* ls: localStorage (currentWord, submissions, archive, wordData_<day>).
\* boot: the mount effect: its captured locals and whether tryLoadFromBackend
\*   still awaits GET /api/current.
\* gnd: the running calls of generateNewDay, one per caller ("boot": the mount
\*   effect, "panel": the admin panel, directly or through
\*   triggerSummarization), each with the values its closure captured.
\* ts, msw, ri: the running call of triggerSummarization / manuallySetWord /
\*   regenerateImage.
\* poll: the GET /api/submissions request of fetchSubmissions.
\* waiting: the POST /api/submit requests whose fetch promise the form awaits.
\* enteredFor: for each submit request, the word on screen when it was entered.
\* panelOps, reloads: how many panel actions / user reloads have happened.
\* likeCalls: for each submission id, how many times likeSubmission was called.
\* peer: a second browser on its first visit: its mount effect and its call of
\*   generateNewDay, with its currentWord and isLoading cells.
\* storageFull: localStorage.setItem throws (quota exceeded, storage disabled).
VARIABLES currentWord, submissions, archive, isLoading, isSummarizing,
          loadingState, ls, boot, gnd, ts, msw, ri, poll, waiting, enteredFor,
          panelOps, reloads, likeCalls, peer, storageFull

ledgerVars == <<currentWord, submissions, archive>>
clientVars == <<currentWord, submissions, archive, isLoading, isSummarizing,
                loadingState, ls, boot, gnd, ts, msw, ri, poll, waiting, enteredFor,
                panelOps, reloads, likeCalls, peer, storageFull>>
vars == <<today, data, subReq, genReq, currentWord, submissions, archive,
          isLoading, isSummarizing, loadingState, ls, boot, gnd, ts, msw, ri, poll,
          waiting, enteredFor, panelOps, reloads, likeCalls, peer, storageFull>>

GndSlots == {"boot", "panel"}

\* What identifies a word of the day: its text and its day.
WordKey(w) == IF w = Null THEN <<>> ELSE <<w.word, w.date>>

\* { word, image, date: getTodayDateString() }
ClientWord(word, image) == [word |-> word, image |-> image, date |-> today]
\* setCurrentWord({ word: "Error", image: undefined, date: getTodayDateString() })
ErrorWord == ClientWord(<<"E", "r", "r", "o", "r">>, NoImage)

\* Words generateNonsenseWord answers with.
NonsenseWords == { NormalizeWord(raw) : raw \in RawWords }
\* Words an administrator types into the set-word form.
ManualWords == { <<" ">>, <<"o", "r", "b", " ">> }
\* The definitions summarizeDefinitions distils from a pool.
SummaryOf(word, subs) == <<"distilled">>
NoDefinitions == <<"No definitions were submitted for this word.">>

\* const archivedEntry: ArchivedWord = { ...currentWord, winningDefinitions }
ArchivedEntry(cw, winningDefinitions) ==
    [word |-> cw.word, image |-> cw.image, date |-> cw.date,
     winningDefinitions |-> winningDefinitions]
\* setArchive(prev => [archivedEntry, ...prev])
Prepend(entry, prev) == <<entry>> \o prev

\* saveStateToLocalStorage, run by the persist effect after a render in which
\* currentWord, submissions or archive changed. When setItem throws, the first
\* one does and the catch logs the error: nothing is written.
saveStateToLocalStorage(l, cw, subs, arch) ==
    IF storageFull
    THEN l
    ELSE [l EXCEPT !.currentWord = IF cw # Null THEN cw ELSE @,
                   !.submissions = subs,
                   !.archive = arch]

NoCache == [d \in Days |-> Null]
EmptyStorage ==
    [currentWord |-> Null, submissions |-> <<>>, archive |-> <<>>, wordData |-> NoCache]

NoLedger == [cur |-> Null, subs |-> <<>>, arch |-> <<>>]
IdleGnd ==
    [pc |-> "idle", cw |-> Null, subs |-> <<>>, today |-> 0, word |-> <<>>,
     after |-> "none", pre |-> NoLedger, touched |-> FALSE,
     summary |-> "none", image |-> "none", outcome |-> "none"]
IdleTs == [pc |-> "idle", cw |-> Null, subs |-> <<>>]
IdleMsw == [pc |-> "idle", word |-> <<>>]
IdlePoll == [pc |-> "idle", list |-> <<>>]
\* calls: how many times regenerateImage was asked for since the page loaded.
IdleRi == [pc |-> "idle", word |-> <<>>, result |-> "none", calls |-> 0]
\* The second browser before it opens the page.
ClosedPeer ==
    [pc |-> "closed", today |-> 0, word |-> <<>>, currentWord |-> Null,
     isLoading |-> TRUE]

\* The ledger the provider shows.
Ledger == [cur |-> currentWord, subs |-> submissions, arch |-> archive]

\* Another operation has written the ledger while these calls were running.
Touch(g) ==
    [s \in GndSlots |->
        IF g[s].pc # "idle" THEN [g[s] EXCEPT !.touched = TRUE] ELSE g[s]]

\* One committed render: the new cells, and the persist effect that follows.
Commit(cw, subs, arch, l) ==
    /\ currentWord' = cw
    /\ submissions' = subs
    /\ archive' = arch
    /\ ls' = saveStateToLocalStorage(l, cw, subs, arch)

\* The provider mounts on storage l: the cells take their initial values, the
\* mount effect captures its locals and starts tryLoadFromBackend, and the
\* persist effect of the first render saves the (empty) cells. Every promise of
\* the page before is gone.
Mount(l, hasSaved) ==
    /\ currentWord' = Null
    /\ submissions' = <<>>
    /\ archive' = <<>>
    /\ isLoading' = TRUE
    /\ isSummarizing' = FALSE
    /\ loadingState' = "idle"
    /\ boot' = [pc |-> "fetching", today |-> today, loadedWord |-> l.currentWord,
                hasSaved |-> hasSaved, savedSubmissions |-> l.submissions,
                savedArchive |-> l.archive]
    /\ gnd' = [s \in GndSlots |-> IdleGnd]
    /\ ts' = IdleTs
    /\ msw' = IdleMsw
    /\ ri' = IdleRi
    /\ poll' = IdlePoll
    /\ waiting' = {}
    /\ ls' = saveStateToLocalStorage(l, Null, <<>>, <<>>)

\* ---- generateNewDay
\* The result of one synchronous segment of generateNewDay: the cells and the
\* storage it leaves, the call's own record, whether it called a setter of the
\* ledger cells (so that the persist effect runs) and whether the call is over.
Segment(cur, subs, arch, l, g, dirty, ended) ==
    [cur |-> cur, subs |-> subs, arch |-> arch, ls |-> l, g |-> g,
     dirty |-> dirty, ended |-> ended]

\* "2. Clear submissions" and "3. Generate a new word" up to the await on
\* generateNonsenseWord, or to the end when wordData_<today> is cached.
GndClear(g, cur, arch, l) ==
    LET cachedData == l.wordData[today] IN
    IF cachedData # Null
    THEN Segment(cachedData, <<>>, arch, l, [g EXCEPT !.outcome = "cached"], TRUE, TRUE)
    ELSE Segment(cur, <<>>, arch, l, [g EXCEPT !.pc = "word", !.today = today],
                 TRUE, FALSE)

\* generateNewDay that summarizes whenever it has a word, whatever the pool.
GndBeginAlwaysSummarizes(cw, subs, after, cur, subs0, arch, l, dirty) ==
    LET g == [IdleGnd EXCEPT !.cw = cw, !.subs = subs, !.after = after,
                             !.pre = [cur |-> cur, subs |-> subs0, arch |-> arch]]
    IN  IF cw # Null
        THEN Segment(cur, subs0, arch, l, [g EXCEPT !.pc = "summarize"], dirty, FALSE)
        ELSE GndClear(g, cur, arch, l)

\* generateNewDay from its call to its first await. cw and subs are the
\* currentWord and submissions its closure captured; cur, subs0 and arch are
\* the cells now.
GndBegin(cw, subs, after, cur, subs0, arch, l, dirty) ==
    LET g == [IdleGnd EXCEPT !.cw = cw, !.subs = subs, !.after = after,
                             !.pre = [cur |-> cur, subs |-> subs0, arch |-> arch]]
    IN  IF cw # Null /\ Len(subs) > 0
        THEN Segment(cur, subs0, arch, l, [g EXCEPT !.pc = "summarize"], dirty, FALSE)
        ELSE IF cw # Null /\ Len(subs) = 0
             THEN GndClear(g, cur, Prepend(ArchivedEntry(cw, NoDefinitions), arch), l)
             ELSE GndClear(g, cur, arch, l)

\* The record a finished call leaves behind (image: whether its image step
\* produced an image).
Finished(g) ==
    [IdleGnd EXCEPT !.summary = g.summary, !.image = g.image, !.outcome = g.outcome]

\* The state after a segment r of the call in `slot`. b, ld, summ and t are
\* what boot, loadingState, isSummarizing and ts become unless the call ends
\* here and its caller goes on: handleGenerateNewDay with
\* window.location.reload(), which may or may not come before the last render
\* and its persist effect; triggerSummarization with its finally.
GndApply(slot, r, b, ld, summ, t) ==
    IF r.ended /\ r.g.after = "reload"
    THEN \E flushed \in BOOLEAN :
            Mount(IF flushed
                  THEN saveStateToLocalStorage(r.ls, r.cur, r.subs, r.arch)
                  ELSE r.ls, TRUE)
    ELSE /\ IF r.dirty
            THEN Commit(r.cur, r.subs, r.arch, r.ls)
            ELSE /\ ls' = r.ls
                 /\ UNCHANGED ledgerVars
         /\ isLoading' = ~r.ended
         /\ gnd' = [Touch(gnd) EXCEPT ![slot] = IF r.ended THEN Finished(r.g) ELSE r.g]
         /\ boot' = b
         /\ IF r.ended /\ r.g.after = "ts"
            THEN /\ isSummarizing' = FALSE
                 /\ loadingState' = "idle"
                 /\ ts' = IdleTs
            ELSE /\ isSummarizing' = summ
                 /\ loadingState' = ld
                 /\ ts' = t
         /\ UNCHANGED <<msw, ri, poll, waiting>>

\* summarizeDefinitions has answered (ok) or thrown: the entry is archived or
\* the catch logs the error, and the call goes on with step 2 either way.
GndSummarized(slot, ok) ==
    LET g == gnd[slot] IN
    /\ g.pc = "summarize"
    /\ GndApply(slot,
                GndClear([g EXCEPT !.summary = IF ok THEN "ok" ELSE "failed"],
                         currentWord,
                         IF ok
                         THEN Prepend(ArchivedEntry(g.cw, SummaryOf(g.cw.word, g.subs)),
                                      archive)
                         ELSE archive,
                         ls),
                boot, loadingState, isSummarizing, ts)
    /\ UNCHANGED <<serverVars, enteredFor, panelOps, reloads, likeCalls, peer, storageFull>>

\* generateNonsenseWord has answered with `word` (ok) or thrown: the call goes
\* on to the image, or the catch installs the "Error" word.
GndWord(slot, ok, word) ==
    LET g == gnd[slot] IN
    /\ g.pc = "word"
    /\ GndApply(slot,
                IF ok
                THEN Segment(currentWord, submissions, archive, ls,
                             [g EXCEPT !.pc = "image", !.word = word], FALSE, FALSE)
                ELSE Segment(ErrorWord, submissions, archive, ls,
                             [g EXCEPT !.outcome = "wordFailed"], TRUE, TRUE),
                boot, loadingState, isSummarizing, ts)
    /\ UNCHANGED <<serverVars, enteredFor, panelOps, reloads, likeCalls, peer, storageFull>>

\* generateImageWithClipDrop has answered (ok) or thrown: the word is cached
\* under the day key read before the awaits and becomes the current word.
\* When the setItem of the cache throws, the outer catch installs the "Error"
\* word.
GndImage(slot, ok) ==
    LET g == gnd[slot]
        wordData == ClientWord(g.word, IF ok THEN ImageFor(g.word) ELSE NoImage)
        image == IF ok THEN "ok" ELSE "failed"
    IN  /\ g.pc = "image"
        /\ GndApply(slot,
                    IF storageFull
                    THEN Segment(ErrorWord, submissions, archive, ls,
                                 [g EXCEPT !.outcome = "cacheFailed", !.image = image],
                                 TRUE, TRUE)
                    ELSE Segment(wordData, submissions, archive,
                                 [ls EXCEPT !.wordData[g.today] = wordData],
                                 [g EXCEPT !.outcome = "ok", !.image = image],
                                 TRUE, TRUE),
                    boot, loadingState, isSummarizing, ts)
        /\ UNCHANGED <<serverVars, enteredFor, panelOps, reloads, likeCalls, peer, storageFull>>

\* ---- the mount effect
\* A check that takes whatever word GET /api/current answers with.
BackendHasAny == data.current # Null
\* The word GET /api/current answers with is dated today (as read at mount).
BackendHasToday == data.current # Null /\ data.current.date = boot.today

\* tryLoadFromBackend: res.ok and data.date === today.
BootFromBackend ==
    /\ boot.pc = "fetching"
    /\ BackendHasToday
    /\ Commit(data.current, submissions, archive, ls)
    /\ isLoading' = FALSE
    /\ boot' = [boot EXCEPT !.pc = "done"]
    /\ gnd' = Touch(gnd)
    /\ UNCHANGED <<serverVars, isSummarizing, loadingState, ts, msw, ri, poll, waiting,
                   enteredFor, panelOps, reloads, likeCalls, peer, storageFull>>

\* tryLoadFromBackend: the fetch threw (fetchFailed) or answered no word of
\* today: the word saved in storage is taken if it is of today, and otherwise
\* generateNewDay is called with the closure of the first render.
BootFallback(fetchFailed) ==
    /\ boot.pc = "fetching"
    /\ fetchFailed \/ ~BackendHasToday
    /\ IF boot.loadedWord # Null /\ boot.loadedWord.date = boot.today
       THEN /\ Commit(boot.loadedWord,
                      IF boot.hasSaved THEN boot.savedSubmissions ELSE submissions,
                      archive, ls)
            /\ isLoading' = FALSE
            /\ boot' = [boot EXCEPT !.pc = "done"]
            /\ gnd' = Touch(gnd)
            /\ UNCHANGED <<isSummarizing, loadingState, ts, msw, ri, poll, waiting>>
       ELSE GndApply("boot",
                     GndBegin(Null, <<>>, "none", currentWord, submissions, archive,
                              ls, FALSE),
                     [boot EXCEPT !.pc = "done"], loadingState, isSummarizing, ts)
    /\ UNCHANGED <<serverVars, enteredFor, panelOps, reloads, likeCalls, peer, storageFull>>

\* The user reloads the page.
UserReload ==
    /\ reloads < MaxReloads
    /\ reloads' = reloads + 1
    /\ Mount(ls, TRUE)
    /\ UNCHANGED <<serverVars, enteredFor, panelOps, likeCalls, peer, storageFull>>

\* ---- the admin panel
\* handleGenerateNewDay (the confirm dialog accepted): the cache of today and
\* the saved word are removed and generateNewDay is awaited.
PanelNewDay ==
    /\ loadingState # "loading"
    /\ panelOps < MaxPanelOps
    /\ panelOps' = panelOps + 1
    /\ GndApply("panel",
                GndBegin(currentWord, submissions, "reload", currentWord, submissions,
                         archive,
                         [ls EXCEPT !.wordData[today] = Null, !.currentWord = Null],
                         FALSE),
                boot, "loading", isSummarizing, ts)
    /\ UNCHANGED <<serverVars, enteredFor, reloads, likeCalls, peer, storageFull>>

\* handleSummarize and triggerSummarization up to the await on
\* summarizeDefinitions. With an empty pool or no current word the call
\* returns at once (ts.pc = "skipped" records that the last call did).
PanelSummarize ==
    /\ ~isSummarizing
    /\ loadingState # "loading"
    /\ panelOps < MaxPanelOps
    /\ panelOps' = panelOps + 1
    /\ IF Len(submissions) = 0 \/ currentWord = Null
       THEN /\ ts' = [IdleTs EXCEPT !.pc = "skipped"]
            /\ UNCHANGED <<loadingState, isSummarizing>>
       ELSE /\ loadingState' = "loading"
            /\ isSummarizing' = TRUE
            /\ ts' = [pc |-> "summarize", cw |-> currentWord, subs |-> submissions]
    /\ UNCHANGED <<serverVars, ledgerVars, isLoading, ls, boot, gnd, msw, ri, poll,
                   waiting, enteredFor, reloads, likeCalls, peer, storageFull>>

\* triggerSummarization after the await: the entry is archived and
\* generateNewDay is called with the closure of the render triggerSummarization
\* was called in; or the catch alerts and the finally ends the call.
TsSummarized(ok) ==
    /\ ts.pc = "summarize"
    /\ IF ok
       THEN GndApply("panel",
                     GndBegin(ts.cw, ts.subs, "ts", currentWord, submissions,
                              Prepend(ArchivedEntry(ts.cw, SummaryOf(ts.cw.word, ts.subs)),
                                      archive),
                              ls, TRUE),
                     boot, "loading", TRUE, [ts EXCEPT !.pc = "newDay"])
       ELSE /\ isSummarizing' = FALSE
            /\ loadingState' = "idle"
            /\ ts' = IdleTs
            /\ UNCHANGED <<ledgerVars, isLoading, ls, boot, gnd, msw, ri, poll, waiting>>
    /\ UNCHANGED <<serverVars, enteredFor, panelOps, reloads, likeCalls, peer, storageFull>>

\* handleSetWord and manuallySetWord up to the await on the image.
PanelSetWord(manualWord) ==
    /\ Trim(manualWord) # <<>>
    /\ loadingState # "loading"
    /\ panelOps < MaxPanelOps
    /\ panelOps' = panelOps + 1
    /\ loadingState' = "loading"
    /\ isLoading' = TRUE
    /\ msw' = [pc |-> "image", word |-> Trim(manualWord)]
    /\ UNCHANGED ri
    /\ UNCHANGED <<serverVars, ledgerVars, isSummarizing, ls, boot, gnd, ts, poll,
                   waiting, enteredFor, reloads, likeCalls, peer, storageFull>>

\* manuallySetWord after the await: the word is installed, with the image or
\* without, and the submissions are cleared.
MswImage(ok) ==
    /\ msw.pc = "image"
    /\ Commit(ClientWord(msw.word, IF ok THEN ImageFor(msw.word) ELSE NoImage),
              <<>>, archive, ls)
    /\ isLoading' = FALSE
    /\ loadingState' = "idle"
    /\ msw' = IdleMsw
    /\ UNCHANGED ri
    /\ gnd' = Touch(gnd)
    /\ UNCHANGED <<serverVars, isSummarizing, boot, ts, poll, waiting, enteredFor,
                   panelOps, reloads, likeCalls, peer, storageFull>>

\* handleRegenerateImage without its test of loadingState.
PanelRegenerateUnguarded ==
    /\ ri.pc # "image"
    /\ panelOps < MaxPanelOps
    /\ panelOps' = panelOps + 1
    /\ IF currentWord = Null
       THEN /\ ri' = [IdleRi EXCEPT !.pc = "skipped", !.calls = ri.calls + 1]
            /\ UNCHANGED loadingState
       ELSE /\ loadingState' = "loading"
            /\ ri' = [pc |-> "image", word |-> currentWord.word, result |-> "none",
                      calls |-> ri.calls + 1]
    /\ UNCHANGED <<serverVars, ledgerVars, isLoading, isSummarizing, ls, boot, gnd, ts,
                   msw, poll, waiting, enteredFor, reloads, likeCalls, peer, storageFull>>

\* handleRegenerateImage and regenerateImage up to the await on the image.
\* With no current word the call returns at once (ri.pc = "skipped" records
\* that the last call did).
PanelRegenerate ==
    /\ ri.pc # "image"
    /\ loadingState # "loading"
    /\ panelOps < MaxPanelOps
    /\ panelOps' = panelOps + 1
    /\ IF currentWord = Null
       THEN /\ ri' = [IdleRi EXCEPT !.pc = "skipped", !.calls = ri.calls + 1]
            /\ UNCHANGED loadingState
       ELSE /\ loadingState' = "loading"
            /\ ri' = [pc |-> "image", word |-> currentWord.word, result |-> "none",
                      calls |-> ri.calls + 1]
    /\ UNCHANGED <<serverVars, ledgerVars, isLoading, isSummarizing, ls, boot, gnd, ts,
                   msw, poll, waiting, enteredFor, reloads, likeCalls, peer, storageFull>>

\* A failed regeneration leaves the word without an image.
RegeneratedWordCleared(prev, ok, image) ==
    IF prev = Null THEN Null ELSE [prev EXCEPT !.image = IF ok THEN image ELSE NoImage]
\* A regeneration that stamps the word with the day after its own.
RegeneratedWordRedated(prev, ok, image) ==
    IF ok /\ prev # Null THEN [prev EXCEPT !.image = image, !.date = @ + 1] ELSE prev
\* setCurrentWord(prev => prev ? { ...prev, image } : null), reached only when
\* the image service has answered.
RegeneratedWord(prev, ok, image) ==
    IF ok /\ prev # Null THEN [prev EXCEPT !.image = image] ELSE prev

\* regenerateImage after the await: the image of the word that is current now
\* is replaced, or the catch alerts; handleRegenerateImage ends.
RiImage(ok) ==
    /\ ri.pc = "image"
    /\ Commit(RegeneratedWord(currentWord, ok, ImageFor(ri.word)), submissions,
              archive, ls)
    /\ loadingState' = "idle"
    /\ ri' = [IdleRi EXCEPT !.result = IF ok THEN "ok" ELSE "failed", !.calls = ri.calls]
    /\ gnd' = IF ok THEN Touch(gnd) ELSE gnd
    /\ UNCHANGED <<serverVars, isLoading, isSummarizing, boot, ts, msw, poll, waiting,
                   enteredFor, panelOps, reloads, likeCalls, peer, storageFull>>

\* ---- the poll of GET /api/submissions
\* app.get('/api/submissions') answers a fetchSubmissions call.
PollRequest ==
    /\ poll.pc = "idle"
    /\ poll' = [pc |-> "inflight", list |-> data.submissions]
    /\ UNCHANGED <<serverVars, ledgerVars, isLoading, isSummarizing, loadingState,
                   ls, boot, gnd, ts, msw, ri, waiting, enteredFor, panelOps, reloads,
                   likeCalls, peer, storageFull>>

\* fetchSubmissions after its awaits: setSubmissions(list) and the setItem.
PollResponse ==
    /\ poll.pc = "inflight"
    /\ Commit(currentWord, poll.list, archive, ls)
    /\ poll' = IdlePoll
    /\ gnd' = Touch(gnd)
    /\ UNCHANGED <<serverVars, isLoading, isSummarizing, loadingState, boot, ts, msw, ri,
                   waiting, enteredFor, panelOps, reloads, likeCalls, peer, storageFull>>

\* ---- the submission form
\* !text.trim()
BlankText(text) == Trim(text) = <<>>

\* The call returns at its check of the text: nothing is posted or added.
Ignore(r, text) ==
    /\ subReq[r].pc = "idle"
    /\ \A q \in SubmitReqs : q < r => subReq[q].pc # "idle"
    /\ subReq' = [subReq EXCEPT ![r] = [IdleSubmit EXCEPT !.pc = "ignored", !.text = text]]
    /\ UNCHANGED <<today, data, genReq, clientVars>>

\* handleSubmit: the POST reaches the server, unless the text is blank.
HandleSubmit(r, text, localUsername, draw) ==
    IF BlankText(text)
    THEN Ignore(r, text)
    ELSE /\ PostSubmit(r, text, localUsername, "gemini", draw)
         /\ waiting' = waiting \cup {r}
         /\ enteredFor' = [enteredFor EXCEPT ![r] = WordKey(currentWord)]
         /\ UNCHANGED <<ledgerVars, isLoading, isSummarizing, loadingState, ls, boot,
                        gnd, ts, msw, ri, poll, panelOps, reloads, likeCalls, peer, storageFull>>

\* The server's answer to a POST /api/submit.
app_post_submit(r) ==
    /\ SubmitWrite(r)
    /\ UNCHANGED clientVars

\* handleSubmit, res.ok: addSubmissionFromServer(data).
addSubmissionFromServer(r) ==
    /\ r \in waiting
    /\ subReq[r].pc = "done"
    /\ Commit(currentWord, Append(submissions, ResponseOf(r)), archive, ls)
    /\ waiting' = waiting \ {r}
    /\ gnd' = Touch(gnd)
    /\ UNCHANGED <<serverVars, isLoading, isSummarizing, loadingState, boot, ts, msw, ri,
                   poll, enteredFor, panelOps, reloads, likeCalls, peer, storageFull>>

\* The username cell, which no reachable code sets.
username == <<>>

\* handleSubmit, the fetch rejected: addSubmission(text).
addSubmission(r, text, localUsername, draw) ==
    IF BlankText(text)
    THEN Ignore(r, text)
    ELSE
    /\ subReq[r].pc = "idle"
    /\ \A q \in SubmitReqs : q < r => subReq[q].pc # "idle"
    /\ subReq' = [subReq EXCEPT ![r] =
                    [IdleSubmit EXCEPT !.pc = "lost", !.text = text,
                                       !.given = localUsername]]
    /\ LET finalUsername ==
               IF username # <<>> THEN [name |-> username]
               ELSE randomUsername(draw[1], draw[2], draw[3])
       IN  Commit(currentWord,
                  Append(submissions, NewSubmission(r, text, finalUsername)),
                  archive, ls)
    /\ enteredFor' = [enteredFor EXCEPT ![r] = WordKey(currentWord)]
    /\ gnd' = Touch(gnd)
    /\ UNCHANGED <<today, data, genReq, isLoading, isSummarizing, loadingState, boot,
                   ts, msw, ri, poll, waiting, panelOps, reloads, likeCalls, peer, storageFull>>

\* ---- likes
\* The map that gives a like to every submission.
LikedPoolAll(subs, id) ==
    [k \in 1..Len(subs) |-> [subs[k] EXCEPT !.likes = @ + 1]]
\* The map of an updater that is run twice on the same state.
LikedPoolTwice(subs, id) ==
    [k \in 1..Len(subs) |->
        IF subs[k].id = id THEN [subs[k] EXCEPT !.likes = @ + 2] ELSE subs[k]]
\* prev.map(sub => (sub.id === id ? { ...sub, likes: sub.likes + 1 } : sub))
LikedPool(subs, id) ==
    [k \in 1..Len(subs) |->
        IF subs[k].id = id THEN [subs[k] EXCEPT !.likes = @ + 1] ELSE subs[k]]

RECURSIVE LikesIssued(_, _)
LikesIssued(calls, ids) ==
    IF ids = {} THEN 0
    ELSE LET i == CHOOSE x \in ids : TRUE IN calls[i] + LikesIssued(calls, ids \ {i})

\* likeSubmission(id): the like button of a card, or a call with an id that is
\* not (or no longer) in the pool.
likeSubmission(id) ==
    /\ LikesIssued(likeCalls, SubmitReqs) < MaxLikes
    /\ likeCalls' = [likeCalls EXCEPT ![id] = @ + 1]
    /\ Commit(currentWord, LikedPool(submissions, id), archive, ls)
    /\ gnd' = IF id \in Ids(submissions) THEN Touch(gnd) ELSE gnd
    /\ UNCHANGED <<serverVars, isLoading, isSummarizing, loadingState, boot, ts, msw, ri,
                   poll, waiting, enteredFor, panelOps, reloads, peer,
                   storageFull>>

\* ---- a second browser
\* The page is opened in a browser that has nothing in its localStorage: the
\* mount effect reads the day and starts tryLoadFromBackend.
PeerMount ==
    /\ peer.pc = "closed"
    /\ peer' = [peer EXCEPT !.pc = "fetching", !.today = today]
    /\ UNCHANGED <<serverVars, ledgerVars, isLoading, isSummarizing, loadingState, ls,
                   boot, gnd, ts, msw, ri, poll, waiting, enteredFor, panelOps, reloads,
                   likeCalls, storageFull>>

\* tryLoadFromBackend in the second browser: GET /api/current has answered the
\* word of today, which becomes its current word; or the fetch threw
\* (fetchFailed) or answered no word of today, and with no saved word
\* generateNewDay runs up to its await on generateNonsenseWord.
PeerLoad(fetchFailed) ==
    /\ peer.pc = "fetching"
    /\ peer' = IF ~fetchFailed /\ data.current # Null /\ data.current.date = peer.today
               THEN [peer EXCEPT !.pc = "done", !.currentWord = data.current,
                                 !.isLoading = FALSE]
               ELSE [peer EXCEPT !.pc = "word", !.today = today]
    /\ UNCHANGED <<serverVars, ledgerVars, isLoading, isSummarizing, loadingState, ls,
                   boot, gnd, ts, msw, ri, poll, waiting, enteredFor, panelOps, reloads,
                   likeCalls, storageFull>>

\* generateNewDay in the second browser after generateNonsenseWord: on to the
\* image, or the catch installs the "Error" word.
PeerWord(ok, word) ==
    /\ peer.pc = "word"
    /\ peer' = IF ok
               THEN [peer EXCEPT !.pc = "image", !.word = word]
               ELSE [peer EXCEPT !.pc = "done", !.currentWord = ErrorWord,
                                 !.isLoading = FALSE]
    /\ UNCHANGED <<serverVars, ledgerVars, isLoading, isSummarizing, loadingState, ls,
                   boot, gnd, ts, msw, ri, poll, waiting, enteredFor, panelOps, reloads,
                   likeCalls, storageFull>>

\* generateNewDay in the second browser after the image: the word generated
\* in this browser becomes its current word.
PeerImage(ok) ==
    /\ peer.pc = "image"
    /\ peer' = [peer EXCEPT !.pc = "done", !.isLoading = FALSE,
                            !.currentWord =
                                ClientWord(peer.word,
                                           IF ok THEN ImageFor(peer.word) ELSE NoImage)]
    /\ UNCHANGED <<serverVars, ledgerVars, isLoading, isSummarizing, loadingState, ls,
                   boot, gnd, ts, msw, ri, poll, waiting, enteredFor, panelOps, reloads,
                   likeCalls, storageFull>>

\* ---- storage
\* From now on localStorage.setItem throws.
StorageFails ==
    /\ ~storageFull
    /\ storageFull' = TRUE
    /\ UNCHANGED <<serverVars, ledgerVars, isLoading, isSummarizing, loadingState, ls,
                   boot, gnd, ts, msw, ri, poll, waiting, enteredFor, panelOps, reloads,
                   likeCalls, peer>>

\* ---- specifications
InitClient ==
    /\ currentWord = Null
    /\ submissions = <<>>
    /\ archive = <<>>
    /\ isLoading = TRUE
    /\ isSummarizing = FALSE
    /\ loadingState = "idle"
    /\ ls = EmptyStorage
    /\ boot = [pc |-> "fetching", today |-> 1, loadedWord |-> Null,
               hasSaved |-> FALSE, savedSubmissions |-> <<>>, savedArchive |-> <<>>]
    /\ gnd = [s \in GndSlots |-> IdleGnd]
    /\ ts = IdleTs
    /\ msw = IdleMsw
    /\ ri = IdleRi
    /\ poll = IdlePoll
    /\ waiting = {}
    /\ enteredFor = [r \in SubmitReqs |-> <<>>]
    /\ panelOps = 0
    /\ reloads = 0
    /\ likeCalls = [id \in SubmitReqs |-> 0]
    /\ peer = ClosedPeer
    /\ storageFull = FALSE

\* The first visit of a browser to a server that has just created data.json.
Init == InitServer /\ InitClient

\* The server with callers that are not modelled further.
NextServer ==
    \/ \E r \in SubmitReqs, text \in Texts, name \in GivenNames,
          p \in ImageProviders, draw \in RandomDraws :
            PostSubmit(r, text, name, p, draw) /\ UNCHANGED clientVars
    \/ \E r \in SubmitReqs : app_post_submit(r)
    \/ \E g \in GenReqs, k \in BOOLEAN : PostGenerate(g, k) /\ UNCHANGED clientVars
    \/ \E g \in GenReqs, raw \in RawWords, imageOk \in BOOLEAN :
            GenerateStore(g, raw, imageOk) /\ UNCHANGED clientVars
    \/ \E g \in GenReqs : GenerateFail(g) /\ UNCHANGED clientVars
    \/ NextDay /\ UNCHANGED clientVars

SpecServer == Init /\ [][NextServer]_vars

\* The day's lifecycle in one browser: the mount effect, generateNewDay and the
\* admin panel, with interpretations added on the client. The server is not
\* reached.
NextLifecycle ==
    \/ \E f \in BOOLEAN : BootFallback(f)
    \/ \E s \in GndSlots, ok \in BOOLEAN : GndSummarized(s, ok)
    \/ \E s \in GndSlots, ok \in BOOLEAN, w \in NonsenseWords : GndWord(s, ok, w)
    \/ \E s \in GndSlots, ok \in BOOLEAN : GndImage(s, ok)
    \/ PanelNewDay
    \/ PanelSummarize
    \/ \E ok \in BOOLEAN : TsSummarized(ok)
    \/ \E w \in ManualWords : PanelSetWord(w)
    \/ \E ok \in BOOLEAN : MswImage(ok)
    \/ \E r \in 1..MaxPool, text \in Texts : addSubmission(r, text, <<>>, <<0, 0, 1>>)
    \/ NextDay /\ UNCHANGED clientVars

Spec == Init /\ [][NextLifecycle]_vars

\* The browser once its first visit has loaded: no word was on the server or
\* in storage, generateNewDay has generated the first nonsense word with its
\* image, and the persist effect has saved it (a state Spec reaches).
FirstWord ==
    LET word == NormalizeWord(<<"b", "l", "o", "r", "v", "e", "k">>) IN
    [word |-> word, image |-> ImageFor(word), date |-> 1]

InitLoaded ==
    /\ currentWord = FirstWord
    /\ submissions = <<>>
    /\ archive = <<>>
    /\ isLoading = FALSE
    /\ isSummarizing = FALSE
    /\ loadingState = "idle"
    /\ ls = [EmptyStorage EXCEPT !.currentWord = FirstWord,
                                 !.wordData[1] = FirstWord]
    /\ boot = [pc |-> "done", today |-> 1, loadedWord |-> Null,
               hasSaved |-> FALSE, savedSubmissions |-> <<>>, savedArchive |-> <<>>]
    /\ gnd = [s \in GndSlots |->
                IF s = "boot"
                THEN [IdleGnd EXCEPT !.outcome = "ok", !.image = "ok"]
                ELSE IdleGnd]
    /\ ts = IdleTs
    /\ msw = IdleMsw
    /\ ri = IdleRi
    /\ poll = IdlePoll
    /\ waiting = {}
    /\ enteredFor = [r \in SubmitReqs |-> <<>>]
    /\ panelOps = 0
    /\ reloads = 0
    /\ likeCalls = [id \in SubmitReqs |-> 0]
    /\ peer = ClosedPeer
    /\ storageFull = FALSE

\* Submission intake in a loaded browser against the server: the form, the
\* server's handler, the poll, and a word set from the panel.
NextIntake ==
    \/ \E w \in ManualWords : PanelSetWord(w)
    \/ \E ok \in BOOLEAN : MswImage(ok)
    \/ PollRequest
    \/ PollResponse
    \/ \E r \in SubmitReqs, text \in Texts, name \in GivenNames, draw \in RandomDraws :
            HandleSubmit(r, text, name, draw)
    \/ \E r \in SubmitReqs : app_post_submit(r)
    \/ \E r \in SubmitReqs : addSubmissionFromServer(r)
    \/ \E r \in SubmitReqs, text \in Texts, name \in GivenNames, draw \in RandomDraws :
            addSubmission(r, text, name, draw)

InitIntake == InitServer /\ InitLoaded

SpecIntake == InitIntake /\ [][NextIntake]_vars

\* Validation of submitted texts: callers that post to the server directly,
\* the form, and the fallback the form takes when its POST fails.
NextValidation ==
    \/ \E r \in SubmitReqs, text \in PostedTexts, p \in ImageProviders :
            PostSubmit(r, text, <<>>, p, <<0, 0, 1>>) /\ UNCHANGED clientVars
    \/ \E r \in SubmitReqs : app_post_submit(r)
    \/ \E r \in SubmitReqs, text \in FormTexts :
            HandleSubmit(r, text, <<>>, <<0, 0, 1>>)
    \/ \E r \in SubmitReqs : addSubmissionFromServer(r)
    \/ \E r \in SubmitReqs, text \in FormTexts :
            addSubmission(r, text, <<>>, <<0, 0, 1>>)

SpecValidation == InitIntake /\ [][NextValidation]_vars

\* Words and their images: startup and New Day on the client, image
\* regeneration from the panel, and POST /api/generate on the server.
NextImage ==
    \/ \E f \in BOOLEAN : BootFallback(f)
    \/ \E s \in GndSlots, ok \in BOOLEAN :
            GndWord(s, ok, <<"b", "l", "o", "r", "v", "e", "k">>)
    \/ \E s \in GndSlots, ok \in BOOLEAN : GndImage(s, ok)
    \/ PanelNewDay
    \/ PanelRegenerate
    \/ \E ok \in BOOLEAN : RiImage(ok)
    \/ \E g \in GenReqs, k \in BOOLEAN : PostGenerate(g, k) /\ UNCHANGED clientVars
    \/ \E g \in GenReqs, imageOk \in BOOLEAN :
            GenerateStore(g, <<"z", "o", "r", "b", "l", "e", " ">>, imageOk)
            /\ UNCHANGED clientVars
    \/ \E g \in GenReqs : GenerateFail(g) /\ UNCHANGED clientVars

SpecImage == Init /\ [][NextImage]_vars

\* Likes in a loaded browser: interpretations arrive through the form or its
\* fallback, cards are liked and the poll replaces the pool.
NextLikes ==
    \/ \E r \in SubmitReqs : HandleSubmit(r, <<" ", "a", " ">>, <<>>, <<0, 0, 1>>)
    \/ \E r \in SubmitReqs : app_post_submit(r)
    \/ \E r \in SubmitReqs : addSubmissionFromServer(r)
    \/ \E r \in SubmitReqs : addSubmission(r, <<" ", "a", " ">>, <<>>, <<5, 5, 99>>)
    \/ \E id \in SubmitReqs : likeSubmission(id)
    \/ PollRequest
    \/ PollResponse

SpecLikes == InitIntake /\ [][NextLikes]_vars

\* Archiving in one browser on one day: startup, New Day and Summarize from
\* the panel, with interpretations added on the client.
NextArchive ==
    \/ \E f \in BOOLEAN : BootFallback(f)
    \/ \E s \in GndSlots, ok \in BOOLEAN : GndSummarized(s, ok)
    \/ \E s \in GndSlots, ok \in BOOLEAN : GndWord(s, ok, <<"b", "l", "o", "r", "v", "e", "k">>)
    \/ \E s \in GndSlots : GndImage(s, TRUE)
    \/ PanelNewDay
    \/ PanelSummarize
    \/ \E ok \in BOOLEAN : TsSummarized(ok)
    \/ \E r \in 1..MaxPool : addSubmission(r, <<" ", "a", " ">>, <<>>, <<0, 0, 1>>)

SpecArchive == Init /\ [][NextArchive]_vars

\* Two browsers and the server: each browser starts up, against a server on
\* which POST /api/generate may or may not have stored a word of today.
NextClients ==
    \/ BootFromBackend
    \/ \E f \in BOOLEAN : BootFallback(f)
    \/ \E ok \in BOOLEAN, w \in NonsenseWords : GndWord("boot", ok, w)
    \/ \E ok \in BOOLEAN : GndImage("boot", ok)
    \/ PeerMount
    \/ \E f \in BOOLEAN : PeerLoad(f)
    \/ \E ok \in BOOLEAN, w \in NonsenseWords : PeerWord(ok, w)
    \/ \E ok \in BOOLEAN : PeerImage(ok)
    \/ \E g \in GenReqs : PostGenerate(g, TRUE) /\ UNCHANGED clientVars
    \/ \E g \in GenReqs, raw \in RawWords, imageOk \in BOOLEAN :
            GenerateStore(g, raw, imageOk) /\ UNCHANGED clientVars
    \/ NextDay /\ UNCHANGED clientVars

SpecClients == Init /\ [][NextClients]_vars

\* Archiving and page reloads in one browser on one day: startup, Summarize
\* from the panel, interpretations added on the client, and the user reloading
\* the page.
NextReload ==
    \/ \E f \in BOOLEAN : BootFallback(f)
    \/ \E s \in GndSlots, ok \in BOOLEAN : GndSummarized(s, ok)
    \/ \E s \in GndSlots : GndWord(s, TRUE, <<"b", "l", "o", "r", "v", "e", "k">>)
    \/ \E s \in GndSlots : GndImage(s, TRUE)
    \/ PanelSummarize
    \/ \E ok \in BOOLEAN : TsSummarized(ok)
    \/ \E r \in 1..MaxPool : addSubmission(r, <<" ", "a", " ">>, <<>>, <<0, 0, 1>>)
    \/ UserReload

SpecReload == Init /\ [][NextReload]_vars

\* Calls that wait for a generation service, in a loaded browser: the form's
\* POST /api/submit and the server's image step, and Summarize, New Day and
\* image regeneration from the panel.
NextTimeout ==
    \/ \E r \in SubmitReqs : HandleSubmit(r, <<" ", "a", " ">>, <<>>, <<0, 0, 1>>)
    \/ \E r \in SubmitReqs : app_post_submit(r)
    \/ \E r \in SubmitReqs : addSubmissionFromServer(r)
    \/ \E f \in BOOLEAN : BootFallback(f)
    \/ \E s \in GndSlots, ok \in BOOLEAN : GndSummarized(s, ok)
    \/ \E s \in GndSlots, ok \in BOOLEAN : GndWord(s, ok, <<"b", "l", "o", "r", "v", "e", "k">>)
    \/ \E s \in GndSlots, ok \in BOOLEAN : GndImage(s, ok)
    \/ PanelNewDay
    \/ PanelSummarize
    \/ \E ok \in BOOLEAN : TsSummarized(ok)
    \/ PanelRegenerate
    \/ \E ok \in BOOLEAN : RiImage(ok)

\* What the event loop guarantees: a continuation whose promise has settled
\* runs. The browser's fetch of its own backend settles, and so does the
\* answer of the server once it is written.
SchedulerFair ==
    /\ WF_vars(\E r \in SubmitReqs : addSubmissionFromServer(r))
    /\ WF_vars(\E f \in BOOLEAN : BootFallback(f))

\* The gateway functions of the browser (generateNonsenseWord,
\* summarizeDefinitions, generateImageWithClipDrop) answer or fail within
\* their timeout, so the call that awaits one of them resumes.
GatewayTimesOut ==
    /\ WF_vars(\E s \in GndSlots, ok \in BOOLEAN : GndSummarized(s, ok))
    /\ WF_vars(\E s \in GndSlots, ok \in BOOLEAN :
                    GndWord(s, ok, <<"b", "l", "o", "r", "v", "e", "k">>))
    /\ WF_vars(\E s \in GndSlots, ok \in BOOLEAN : GndImage(s, ok))
    /\ WF_vars(\E ok \in BOOLEAN : TsSummarized(ok))
    /\ WF_vars(\E ok \in BOOLEAN : RiImage(ok))

\* The server's generateImage awaits the image model with no timeout: nothing
\* makes app_post_submit happen.
SpecTimeout == InitIntake /\ [][NextTimeout]_vars /\ SchedulerFair /\ GatewayTimesOut

\* Words becoming current: POST /api/generate with whatever the word model
\* answers, the browser's startup from the backend or by generateNewDay, and a
\* word set from the panel.
NextWords ==
    \/ \E g \in GenReqs, k \in BOOLEAN : PostGenerate(g, k) /\ UNCHANGED clientVars
    \/ \E g \in GenReqs, raw \in RawAnswers, imageOk \in BOOLEAN :
            GenerateStore(g, raw, imageOk) /\ UNCHANGED clientVars
    \/ \E g \in GenReqs : GenerateFail(g) /\ UNCHANGED clientVars
    \/ BootFromBackend
    \/ \E f \in BOOLEAN : BootFallback(f)
    \/ \E ok \in BOOLEAN, w \in NonsenseWords : GndWord("boot", ok, w)
    \/ \E ok \in BOOLEAN : GndImage("boot", ok)
    \/ \E w \in ManualWords : PanelSetWord(w)
    \/ \E ok \in BOOLEAN : MswImage(ok)

SpecWords == Init /\ [][NextWords]_vars

\* A loaded browser whose localStorage stops taking writes: interpretations
\* added through the form or its fallback, and likes.
NextStorage ==
    \/ StorageFails
    \/ \E r \in SubmitReqs : HandleSubmit(r, <<" ", "a", " ">>, <<>>, <<0, 0, 1>>)
    \/ \E r \in SubmitReqs : app_post_submit(r)
    \/ \E r \in SubmitReqs : addSubmissionFromServer(r)
    \/ \E r \in SubmitReqs : addSubmission(r, <<" ", "a", " ">>, <<>>, <<5, 5, 99>>)
    \/ \E id \in SubmitReqs : likeSubmission(id)

SpecStorage == InitIntake /\ [][NextStorage]_vars

\* Startup over several days: the browser mounts, is reloaded by the user as
\* days pass, and takes interpretations, while POST /api/generate may store a
\* word on the server.
NextStartup ==
    \/ BootFromBackend
    \/ \E f \in BOOLEAN : BootFallback(f)
    \/ \E ok \in BOOLEAN : GndWord("boot", ok, <<"b", "l", "o", "r", "v", "e", "k">>)
    \/ \E ok \in BOOLEAN : GndImage("boot", ok)
    \/ UserReload
    \/ \E r \in 1..MaxPool : addSubmission(r, <<" ", "a", " ">>, <<>>, <<0, 0, 1>>)
    \/ \E g \in GenReqs : PostGenerate(g, TRUE) /\ UNCHANGED clientVars
    \/ \E g \in GenReqs :
            GenerateStore(g, <<"z", "o", "r", "b", "l", "e", " ">>, TRUE)
            /\ UNCHANGED clientVars
    \/ NextDay /\ UNCHANGED clientVars

SpecStartup == Init /\ [][NextStartup]_vars

\* The panel used while the page starts up: the startup's generateNewDay, a
\* word set from the panel and image regeneration.
NextOverlap ==
    \/ \E f \in BOOLEAN : BootFallback(f)
    \/ \E w \in NonsenseWords : GndWord("boot", TRUE, w)
    \/ \E ok \in BOOLEAN : GndImage("boot", ok)
    \/ \E w \in ManualWords : PanelSetWord(w)
    \/ \E ok \in BOOLEAN : MswImage(ok)
    \/ PanelRegenerate
    \/ \E ok \in BOOLEAN : RiImage(ok)

SpecOverlap == Init /\ [][NextOverlap]_vars

\* Image regeneration in one browser: startup, New Day and Regenerate Image
\* from the panel.
NextRegenerate ==
    \/ \E f \in BOOLEAN : BootFallback(f)
    \/ \E s \in GndSlots, ok \in BOOLEAN, w \in NonsenseWords : GndWord(s, ok, w)
    \/ \E s \in GndSlots, ok \in BOOLEAN : GndImage(s, ok)
    \/ PanelNewDay
    \/ PanelRegenerate
    \/ \E ok \in BOOLEAN : RiImage(ok)

SpecRegenerate == Init /\ [][NextRegenerate]_vars

\* The admin panel in one browser on one day: its four actions, with the
\* startup and interpretations added on the client.
NextPanel ==
    \/ \E f \in BOOLEAN : BootFallback(f)
    \/ \E s \in GndSlots, ok \in BOOLEAN : GndSummarized(s, ok)
    \/ \E s \in GndSlots, ok \in BOOLEAN : GndWord(s, ok, <<"b", "l", "o", "r", "v", "e", "k">>)
    \/ \E s \in GndSlots, ok \in BOOLEAN : GndImage(s, ok)
    \/ PanelNewDay
    \/ PanelSummarize
    \/ \E ok \in BOOLEAN : TsSummarized(ok)
    \/ PanelSetWord(<<"o", "r", "b", " ">>)
    \/ \E ok \in BOOLEAN : MswImage(ok)
    \/ PanelRegenerate
    \/ \E ok \in BOOLEAN : RiImage(ok)
    \/ \E r \in 1..MaxPool : addSubmission(r, <<" ", "a", " ">>, <<>>, <<0, 0, 1>>)

SpecPanel == Init /\ [][NextPanel]_vars

\* ------------------------------------------------------------------ claims

\* C1: no lost update on the server. For any two submit requests whose
\* handling overlapped and that have both completed since the submissions were
\* last cleared by POST /api/generate, both submissions are in data.json.
C1_NoLostUpdate ==
    \A a, b \in SubmitReqs :
        ( /\ a # b
          /\ subReq[a].pc = "done" /\ subReq[b].pc = "done"
          /\ b \in subReq[a].met
          /\ subReq[a].epoch = StoresDone /\ subReq[b].epoch = StoresDone )
        => {a, b} \subseteq Ids(data.submissions)

\* A step of generateNewDay (client) / of a POST /api/generate (server).
GndStep == \E s \in GndSlots : gnd'[s].pc # gnd[s].pc
GenerateStep == \E g \in GenReqs : genReq'[g].pc # genReq[g].pc

\* C2: a rollover is observed atomically. No step of a rollover clears the
\* submissions or prepends to the archive while leaving the outgoing word
\* current, and none replaces the current word while leaving the submissions;
\* on the client (generateNewDay) and on the server (POST /api/generate).
C2_RolloverAtomic ==
    [][ /\ GndStep =>
            LET partial == \/ archive' # archive
                           \/ (submissions # <<>> /\ submissions' = <<>>)
                replaced == WordKey(currentWord') # WordKey(currentWord)
            IN  (partial => replaced) /\ (replaced => submissions' = <<>>)
        /\ GenerateStep =>
            LET partial == \/ data'.archive # data.archive
                           \/ (data.submissions # <<>> /\ data'.submissions = <<>>)
                replaced == WordKey(data'.current) # WordKey(data.current)
            IN  (partial => replaced) /\ (replaced => data'.submissions = <<>>)
      ]_vars

\* C3: invariant I1 on the client. Every interpretation in the pool was entered
\* while the word that is current now was current.
C3_PoolOfCurrentWord ==
    currentWord # Null =>
        \A k \in 1..Len(submissions) :
            enteredFor[submissions[k].id] = WordKey(currentWord)

\* C4: when word generation fails in a rollover that nothing else interfered
\* with, current, submissions and archive are what they were before the call;
\* on the client (generateNewDay) and on the server (POST /api/generate).
C4_WordFailureRollsBack ==
    [][ /\ \A s \in GndSlots :
            ( /\ gnd[s].pc = "word"
              /\ gnd'[s].outcome = "wordFailed"
              /\ ~gnd[s].touched )
            => Ledger' = gnd[s].pre
        /\ \A g \in GenReqs :
            (genReq[g].pc = "awaiting" /\ genReq'[g].pc = "failed") => data' = data
      ]_vars

\* A call of generateNewDay made while the current word is of today, with
\* which nothing else has interfered.
SameDayCall(g) ==
    /\ g.pc # "idle"
    /\ g.pre.cur # Null
    /\ g.pre.cur.date = today
    /\ ~g.touched

\* C5: generateNewDay is idempotent within a day. A call made while the current
\* word is of today leaves the ledger as it was, as long as the call runs and
\* when it ends: same current word, no archive entry, submissions not cleared.
C5_SameDayIdempotent ==
    [][ \A s \in GndSlots :
            /\ SameDayCall(gnd'[s]) => Ledger' = gnd'[s].pre
            /\ ( /\ SameDayCall(gnd[s])
                 /\ gnd'[s].pc = "idle"
                 /\ gnd'[s].outcome # "none" )
               => Ledger' = gnd[s].pre
      ]_vars

\* Rollovers that are between their first step and their last: the calls of
\* generateNewDay, triggerSummarization before it calls generateNewDay, and
\* the POST /api/generate requests.
RolloversInFlight ==
    Cardinality({ s \in GndSlots : gnd[s].pc # "idle" })
    + (IF ts.pc = "summarize" THEN 1 ELSE 0)

\* C6: invariant I3. At most one rollover is in flight at any time, on the
\* client and on the server.
C6_OneRolloverInFlight ==
    /\ RolloversInFlight <= 1
    /\ Cardinality({ g \in GenReqs : genReq[g].pc = "awaiting" }) <= 1

\* The ledger (cur, subs, arch) after a successful rollover of word w over the
\* archive prev.
RolledOver(w, prev, cur, subs, arch) ==
    /\ Len(arch) = Len(prev) + 1
    /\ arch[1].word = w.word /\ arch[1].date = w.date
    /\ Tail(arch) = prev
    /\ subs = <<>>
    /\ cur # Null /\ cur.date = today

\* C7: a successful rollover from a current word W of an earlier day ends with
\* the archive being an entry for W followed by the previous archive, no
\* submissions, and a current word of today; for POST /api/generate, for
\* generateNewDay at startup (W and the archive being the saved ones) and for
\* generateNewDay called later.
C7_RolloverResult ==
    [][ /\ \A g \in GenReqs :
            ( /\ genReq[g].pc = "awaiting" /\ genReq'[g].pc = "done"
              /\ data.current # Null /\ data.current.date < today )
            => RolledOver(data.current, data.archive,
                          data'.current, data'.submissions, data'.archive)
        /\ \A s \in GndSlots :
            LET w == IF s = "boot" THEN boot.loadedWord ELSE gnd[s].pre.cur
                prev == IF s = "boot" THEN boot.savedArchive ELSE gnd[s].pre.arch
            IN  ( /\ gnd[s].pc # "idle" /\ gnd'[s].pc = "idle"
                  /\ gnd'[s].outcome \in {"ok", "cached"}
                  /\ ~gnd[s].touched
                  /\ w # Null /\ w.date < today )
                => RolledOver(w, prev, currentWord', submissions', archive')
      ]_vars

\* C8: when summarization of a non-empty pool fails during a rollover, the
\* rollover stops there and current, submissions and archive are unchanged;
\* in generateNewDay and in triggerSummarization.
C8_SummaryFailureAborts ==
    [][ /\ \A s \in GndSlots :
            (gnd[s].pc = "summarize" /\ gnd'[s].summary = "failed")
            => (UNCHANGED ledgerVars /\ gnd'[s].pc = "idle")
        /\ (ts.pc = "summarize" /\ ts'.pc = "idle")
            => (UNCHANGED ledgerVars /\ gnd' = gnd)
      ]_vars

\* C9: a submit changes nothing but the submissions list, to which it adds its
\* own submission only: the write of a submit leaves current and archive as
\* they are and brings back no submission that is not in the list.
C9_SubmitFrame ==
    [][ \A r \in SubmitReqs :
            (subReq[r].pc # "done" /\ subReq'[r].pc = "done")
            => /\ data'.current = data.current
               /\ data'.archive = data.archive
               /\ Ids(data'.submissions) \subseteq Ids(data.submissions) \cup {r}
      ]_vars

\* The entries of a pool with a given id.
EntriesOf(subs, id) == SelectSeq(subs, LAMBDA e : e.id = id)

\* C10: when a submit completes on the client (the server's answer has been
\* added, or the fallback has added it), the list shows exactly one entry for
\* it, with likes = 0, the trimmed text, and the caller's name if not blank and
\* otherwise a generated handle.
C10_ExactlyOneEntry ==
    [][ \A r \in SubmitReqs :
            ( \/ (r \in waiting /\ r \notin waiting')
              \/ (subReq[r].pc = "idle" /\ subReq'[r].pc = "lost") )
            => LET es == EntriesOf(submissions', r) IN
               /\ Len(es) = 1
               /\ es[1].likes = 0
               /\ es[1].text = Trim(subReq'[r].text)
               /\ IF Trim(subReq'[r].given) # <<>>
                  THEN es[1].username = [name |-> Trim(subReq'[r].given)]
                  ELSE IsHandle(es[1].username)
      ]_vars

\* A submit request or call that has been refused: answered 400 by the server,
\* or returned from at the check of the text by the client.
Refused(q) == q.pc \in {"rejected", "ignored"}

C12_LongTextRefused ==
    /\ \A r \in SubmitReqs :
            (subReq[r].pc # "idle" /\ Len(subReq[r].text) > maxLength)
            => Refused(subReq[r])
    /\ \A k \in 1..Len(data.submissions) :
            Len(data.submissions[k].text) \in 1..maxLength
    /\ \A k \in 1..Len(submissions) : Len(submissions[k].text) \in 1..maxLength

\* A call of generateNewDay in slot s ends in this step and the page stays.
GndEnds(s) ==
    /\ gnd[s].pc # "idle"
    /\ gnd'[s].pc = "idle"
    /\ gnd'[s].outcome # "none"

\* C13: each rollover creates exactly one archive entry for the outgoing word.
\* When a call of generateNewDay made with a current word ends, nothing else
\* having written the ledger, the archive is the archive before the rollover
\* with one entry for that word in front; the rollover of
\* triggerSummarization begins at its own archive step.
C13_OneEntryPerRollover ==
    [][ \A s \in GndSlots :
            ( /\ GndEnds(s)
              /\ gnd'[s].outcome \in {"ok", "cached"}
              /\ ~gnd[s].touched
              /\ gnd[s].cw # Null )
            => LET before == IF gnd[s].after = "ts"
                             THEN Tail(gnd[s].pre.arch)
                             ELSE gnd[s].pre.arch
               IN  /\ Len(archive') = Len(before) + 1
                   /\ archive'[1].word = gnd[s].cw.word
                   /\ Tail(archive') = before
      ]_vars

\* C14: when manuallySetWord(w), called while a word W is current, ends, the
\* archive has a new entry for W in front, the current word is w dated today
\* and there are no submissions, whether the image was generated or not.
C14_ForceSetWordArchives ==
    [][ (msw.pc = "image" /\ msw'.pc = "idle" /\ currentWord # Null)
        => /\ Len(archive') = Len(archive) + 1
           /\ archive'[1].word = currentWord.word
           /\ archive'[1].date = currentWord.date
           /\ Tail(archive') = archive
           /\ currentWord'.word = msw.word
           /\ currentWord'.date = today
           /\ submissions' = <<>>
      ]_vars

\* C15: triggerSummarization, called while a word is current, runs the full
\* rollover: it does not return without doing so, and when it has ended
\* normally the word it was called for is in the archive, there are no
\* submissions and a word is current.
C15_SummarizeNowRollsOver ==
    [][ /\ (ts'.pc = "skipped" /\ panelOps' # panelOps) => currentWord = Null
        /\ ( /\ ts.pc = "newDay"
              /\ GndEnds("panel")
              /\ gnd'["panel"].outcome \in {"ok", "cached"} )
            => /\ \E k \in 1..Len(archive') : archive'[k].word = ts.cw.word
               /\ submissions' = <<>>
               /\ currentWord' # Null
      ]_vars

\* C16: a failure of image generation is never fatal. In generateNewDay and in
\* POST /api/generate the new word is installed all the same, dated today and
\* without an image (when New Day reloads the page, the word is in the cache of
\* its day); in regenerateImage the current word is left as it is, image
\* included.
C16_ImageFailureNotFatal ==
    [][ /\ \A s \in GndSlots :
            /\ (gnd[s].pc = "image" /\ GndEnds(s) /\ gnd'[s].image = "failed")
               => currentWord' = [word |-> gnd[s].word, image |-> NoImage,
                                  date |-> today]
            /\ (gnd[s].pc = "image" /\ gnd[s].after = "reload" /\ gnd'[s].pc = "idle")
               => /\ ls'.wordData[gnd[s].today] # Null
                  /\ ls'.wordData[gnd[s].today].word = gnd[s].word
        /\ \A g \in GenReqs :
            (genReq[g].pc = "awaiting" /\ genReq'[g].image = "failed")
            => /\ genReq'[g].pc = "done"
               /\ data'.current # Null
               /\ data'.current.image = NoImage
               /\ data'.current.date = today
        /\ (ri.pc = "image" /\ ri'.result = "failed")
            => (ri'.pc = "idle" /\ currentWord' = currentWord)
      ]_vars

\* The server has stored a word whose image failed, and in the browser a
\* regeneration has failed on a word that still has its image.
C16_Witness ==
    /\ \E g \in GenReqs : genReq[g].image = "failed"
    /\ data.current # Null /\ data.current.image = NoImage
    /\ ri.result = "failed"
    /\ currentWord # Null /\ currentWord.image # NoImage

LikesOf(subs, id) == { subs[k].likes : k \in { j \in 1..Len(subs) : subs[j].id = id } }

\* C18: as long as a submission stays in the pool its likes never decrease,
\* whatever the operation: like, submit, or the replacement of the pool by the
\* list fetched from GET /api/submissions.
C18_LikesNeverDecrease ==
    [][ \A id \in Ids(submissions) \cap Ids(submissions') :
            \A before \in LikesOf(submissions, id) :
                \E after \in LikesOf(submissions', id) : after >= before
      ]_vars

\* likeSubmission(id) is called in this step.
LikeStep(id) == likeCalls'[id] = likeCalls[id] + 1

\* C19: likeSubmission(id) with id in the pool raises the likes of that
\* submission by exactly 1 and changes nothing else: every other submission,
\* the order and length of the pool, the current word, the archive and
\* data.json are as before. Likes being single steps, k of them raise the
\* likes by k.
C19_LikeAddsOne ==
    [][ \A id \in SubmitReqs :
            (LikeStep(id) /\ id \in Ids(submissions))
            => /\ Len(submissions') = Len(submissions)
               /\ \A k \in 1..Len(submissions) :
                    /\ submissions'[k].id = submissions[k].id
                    /\ submissions'[k].text = submissions[k].text
                    /\ submissions'[k].username = submissions[k].username
                    /\ submissions'[k].likes =
                         submissions[k].likes + (IF submissions[k].id = id THEN 1 ELSE 0)
               /\ currentWord' = currentWord
               /\ archive' = archive
               /\ data' = data
      ]_vars

\* A submission liked twice shows two likes, next to one that was not liked.
C19_Witness ==
    \E k, j \in 1..Len(submissions) :
        /\ submissions[k].likes = 2
        /\ likeCalls[submissions[k].id] = 2
        /\ submissions[j].id # submissions[k].id
        /\ submissions[j].likes = 0

ShowsWord(w) == w # Null /\ w.word # ErrorWord.word
Loaded == boot.pc = "done" /\ ~isLoading /\ ShowsWord(currentWord)

\* C21: one current word for all clients. Once two browsers have each finished
\* loading today, whatever the order and whether or not the server held a word
\* of today, their current words are the same word, and the word the server
\* has stored as current.
C21_OneWordForAllClients ==
    ( /\ Loaded /\ boot.today = today
      /\ peer.pc = "done" /\ ShowsWord(peer.currentWord) /\ peer.today = today )
    => /\ WordKey(currentWord) = WordKey(peer.currentWord)
       /\ WordKey(currentWord) = WordKey(data.current)

\* Sequence a is the tail end of sequence b.
IsSuffix(a, b) ==
    /\ Len(a) <= Len(b)
    /\ SubSeq(b, Len(b) - Len(a) + 1, Len(b)) = a

\* C22: invariant I2, the archive is append-at-front only. Every step of an
\* operation (the user's own reload of the page set aside) leaves the entries
\* the archive had, in content and order, at the end of the archive, new
\* entries coming in front of them.
C22_ArchiveAppendOnly ==
    [][ reloads' = reloads => IsSuffix(archive, archive') ]_vars

\* No call is running in the browser and a word shows.
Quiet ==
    /\ Loaded
    /\ \A s \in GndSlots : gnd[s].pc = "idle"
    /\ ts.pc # "summarize" /\ ts.pc # "newDay"
    /\ msw.pc = "idle" /\ ri.pc = "idle"

\* C23: the archive survives a reload. When the user reloads the page while
\* no operation is running, the archive in localStorage is still the archive
\* the provider held, and once the page has loaded again the provider holds
\* every entry that was saved when it mounted; the archive in storage is never
\* replaced by an empty one.
C23_ArchiveSurvivesReload ==
    [][ /\ (reloads' # reloads /\ Quiet) => ls'.archive = archive
        /\ Loaded' => IsSuffix(boot'.savedArchive, archive')
        /\ ls.archive # <<>> => ls'.archive # <<>>
      ]_vars

C25_EveryCallFinishes ==
    /\ isLoading ~> ~isLoading
    /\ isSummarizing ~> ~isSummarizing
    /\ (ri.pc = "image") ~> (ri.pc # "image")
    /\ \A r \in SubmitReqs : (r \in waiting) ~> (r \notin waiting)

\* A word of at least one character, all of them letters.
IsAlphabetic(w) == Len(w) >= 1 /\ \A k \in 1..Len(w) : w[k] \in Letters

\* C26: no operation installs a current word that is empty or has a character
\* that is not a letter, on the server or in the browser, and every word
\* POST /api/generate has stored consists of 6 to 12 letters.
C26_CurrentWordAlphabetic ==
    /\ currentWord # Null => IsAlphabetic(currentWord.word)
    /\ data.current # Null =>
            /\ IsAlphabetic(data.current.word)
            /\ Len(data.current.word) \in MinWordLen..WordSliceLen

\* The ledger as localStorage holds it.
Persisted == [cur |-> ls.currentWord, subs |-> ls.submissions, arch |-> ls.archive]

\* C27: an operation whose write to storage fails is not applied. While
\* localStorage takes no writes, the ledger the provider holds is the ledger
\* that was last saved.
C27_FailedWriteNotApplied ==
    storageFull => Ledger = Persisted

\* tryLoadFromBackend ends in this step, and whether it called generateNewDay.
StartupStep == boot.pc = "fetching" /\ boot'.pc = "done"
RolloverStarted == gnd'["boot"] # IdleGnd

C29_SubmissionRetained ==
    [][ \A id \in Ids(submissions) :
            id \notin Ids(submissions')
            => \/ (msw.pc = "image" /\ msw'.pc = "idle")
               \/ GndStep
      ]_vars

\* C30: in every reachable state the image stored on the current word, if
\* any, was generated for that word, also when regenerateImage runs while a
\* rollover or manuallySetWord replaces the current word.
C30_ImageOfCurrentWord ==
    currentWord # Null =>
        currentWord.image \in {NoImage, ImageFor(currentWord.word)}

\* The actions started from the panel that have not ended: manuallySetWord,
\* regenerateImage, triggerSummarization (with the generateNewDay it awaits)
\* and the generateNewDay of New Day.
PanelInFlight ==
    (IF msw.pc = "image" THEN 1 ELSE 0)
    + (IF ri.pc = "image" THEN 1 ELSE 0)
    + (IF ts.pc \in {"summarize", "newDay"} THEN 1 ELSE 0)
    + (IF gnd["panel"].pc # "idle" /\ gnd["panel"].after = "reload" THEN 1 ELSE 0)

====
